---- MODULE Spec2Model ----
(***************************************************************************)
(* Model of the investor normalisation scripts.                            *)
(*                                                                         *)
(*   loaders      export_relational.py       process_investor_data         *)
(*                export_relational_fast.py  extract_and_bulk_insert       *)
(*   child passes populate_nested_data.py        process_nested_data       *)
(*                populate_nested_data_fixed.py  process_nested_data       *)
(*                complete_population.py         process_all_nested_data   *)
(*                                                                         *)
(* A behaviour is one pipeline run: main() of a loader recreates the       *)
(* schema and loads persons, firms, locations and investors; afterwards    *)
(* one of the child-pass scripts is run against the same database.         *)
(***************************************************************************)
EXTENDS Integers, Sequences, FiniteSets, TLC

(***************************************************************************)
(* Bounds of the model.                                                    *)
(***************************************************************************)
MaxRecords == 2
MaxFaults == 1

(***************************************************************************)
(* Python values.  Every value carries its run-time type in t, so that the *)
(* isinstance() guards of the scripts are decided as Python decides them.  *)
(* A mapping is a TLA+ record; a key the mapping does not carry is a field *)
(* the record does not have.                                               *)
(***************************************************************************)
PyNone == [t |-> "none"]
Str(s) == [t |-> "str", s |-> s]
Dict(kv) == [t |-> "dict", kv |-> kv]
NdArray(items) == [t |-> "ndarray", items |-> items]
PyList(items) == [t |-> "list", items |-> items]
Series(kv) == [t |-> "series", kv |-> kv]
EmptyDict == Dict(<<>>)
EmptyList == PyList(<<>>)

\* SQL NULL in a text column, and None used as a dict key.
NULL == "<null>"
\* SQL NULL in an integer column, and None held in a *_id variable.
NoId == 0

\* obj.get(key, default) of a dict or of a pandas Series.
Get(obj, key, default) ==
    IF key \in DOMAIN obj.kv THEN obj.kv[key] ELSE default

\* safe_get: only a dict is looked into, anything else yields the default.
safe_get(obj, key, default) ==
    IF obj.t = "dict" THEN Get(obj, key, default) ELSE default

\* bool(v) raises ValueError for an ndarray with more than one element.
TruthRaises(v) == v.t = "ndarray" /\ Len(v.items) > 1

RECURSIVE Truthy(_)
Truthy(v) ==
    CASE v.t = "none" -> FALSE
      [] v.t = "str" -> v.s # ""
      [] v.t = "dict" -> DOMAIN v.kv # {}
      [] v.t = "list" -> Len(v.items) > 0
      [] v.t = "ndarray" -> Len(v.items) = 1 /\ Truthy(v.items[1])
      [] OTHER -> TRUE

\* A Python scalar as bound to a text parameter / used as a dict key.
Sql(v) == IF v.t = "str" THEN v.s ELSE NULL

(***************************************************************************)
(* Registries: Python dicts natural key -> id, as sets of <<key, id>>.     *)
(***************************************************************************)
InMap(m, k) == \E p \in m : p[1] = k
MapAt(m, k) == (CHOOSE p \in m : p[1] = k)[2]
\* m.get(k)
MapGet(m, k) == IF InMap(m, k) THEN MapAt(m, k) ELSE NoId
\* m[k] = v
MapPut(m, k, v) == {p \in m : p[1] # k} \cup {<<k, v>>}

(***************************************************************************)
(* Source records.                                                         *)
(***************************************************************************)
PersonAlice == Dict([slug |-> Str("a"), name |-> Str("Alice")])
PersonAlicia == Dict([slug |-> Str("a"), name |-> Str("Alicia")])
PersonBob == Dict([slug |-> Str("b"), name |-> Str("Bob")])
PersonNullSlug == Dict([slug |-> PyNone, name |-> Str("Nil")])
PersonNoSlug == Dict([name |-> Str("Anon")])

FirmOne == Dict([slug |-> Str("f1"), name |-> Str("Acme")])
FirmNoSlug == Dict([name |-> Str("Solo")])

LocationSF == Dict([display_name |-> Str("SF"), kind |-> Str("city")])
LocationNoName == Dict([kind |-> Str("city")])

CompanyAcme == Dict([name |-> Str("Acme"), display_name |-> Str("Acme Inc")])
CompanyAcme2 == Dict([name |-> Str("Acme"), display_name |-> Str("ACME")])
CompanyNoName == Dict([display_name |-> Str("Stealth")])
SchoolMIT == Dict([name |-> Str("MIT")])

PositionsFull ==
    NdArray(<< Dict([title |-> Str("Partner"), company |-> CompanyAcme]),
               PyNone,
               Dict([title |-> Str("Advisor"), company |-> CompanyNoName]) >>)
PositionsAcme2 ==
    NdArray(<< Dict([title |-> Str("CEO"), company |-> CompanyAcme2]) >>)
DegreesFull ==
    NdArray(<< Dict([name |-> Str("BSc"), school |-> SchoolMIT]),
               Dict([name |-> Str("MBA"), school |-> PyNone]) >>)
KindsFull ==
    NdArray(<< Dict([kind |-> Str("k1"), display_name |-> Str("d1")]),
               Str("junk") >>)
ImagesFull == NdArray(<< Str("u1"), Str(""), PyNone >>)
ImagesEdit == NdArray(<< Str("u1") >>)
MediaFull ==
    NdArray(<< Dict([url |-> Str("m1"), title |-> Str("t1"),
                     image_url |-> Str("i1")]) >>)
\* total_raised: a flat payload, and a nested one (an object array whose
\* elements are arrays themselves, which tolist() leaves as arrays).
RaisedFlat == NdArray(<< Str("1M") >>)
RaisedNested == NdArray(<< NdArray(<< Str("1M"), Str("USD") >>) >>)
Edge(name, raised) ==
    Dict([node |-> Dict([company_display_name |-> name,
                         total_raised |-> raised])])
InvestmentsFull ==
    Dict([edges |-> NdArray(<< Edge(Str("Acme"), RaisedFlat),
                               Edge(PyNone, PyNone) >>)])
InvestmentsNested ==
    Dict([edges |-> NdArray(<< Edge(Str("Acme"), RaisedFlat),
                               Edge(Str("Beta"), RaisedNested) >>)])

ArrayFields ==
    {"positions", "degrees", "areas_of_interest", "investment_locations",
     "stages", "image_urls", "image_urls_edit_mode", "media_links"}

\* The nested-array cells of a record: all absent, all null, all empty, or
\* filled.
ArraysAbsent == <<>>
ArraysNull == [f \in ArrayFields |-> PyNone]
ArraysEmpty == [f \in ArrayFields |-> NdArray(<<>>)]
ArraysFull ==
    [positions |-> PositionsFull, degrees |-> DegreesFull,
     areas_of_interest |-> KindsFull, investment_locations |-> KindsFull,
     stages |-> KindsFull, image_urls |-> ImagesFull,
     image_urls_edit_mode |-> ImagesEdit, media_links |-> MediaFull,
     investments_on_record |-> InvestmentsFull]
ArraysNested ==
    [positions |-> PositionsAcme2, areas_of_interest |-> KindsFull,
     investments_on_record |-> InvestmentsNested]

DimsAlice == [person |-> PersonAlice, firm |-> FirmOne, location |-> LocationSF]
DimsAlicia == [person |-> PersonAlicia, firm |-> PyNone, location |-> LocationNoName]
DimsBob == [person |-> PersonBob, firm |-> FirmNoSlug, location |-> LocationSF]
DimsNullSlug == [person |-> PersonNullSlug, firm |-> FirmOne, location |-> PyNone]
DimsNoSlug == [person |-> PersonNoSlug, firm |-> FirmNoSlug]
DimsNoPerson == [firm |-> FirmOne, location |-> LocationSF]
DimsNullPerson == [person |-> PyNone, firm |-> PyNone, location |-> PyNone]
DimsEmptyPerson == [person |-> EmptyDict, firm |-> EmptyDict, location |-> EmptyDict]

Row(dims, arrays) == Series(dims @@ arrays)

\* The records a source file may hold.
RecordSet ==
    {Row(DimsAlice, ArraysFull), Row(DimsAlicia, ArraysFull),
     Row(DimsNoPerson, ArraysFull), Row(DimsNullPerson, ArraysFull),
     Row(DimsEmptyPerson, ArraysFull),
     Row(DimsBob, ArraysAbsent), Row(DimsNoSlug, ArraysNull),
     Row(DimsNullSlug, ArraysEmpty), Row(DimsAlice, ArraysNested)}

Frames == UNION {[1..n -> RecordSet] : n \in 1..MaxRecords}

(***************************************************************************)
(* State.                                                                  *)
(***************************************************************************)
VARIABLES
    df,             \* the loaded DataFrame: the source records, in order
    loader,         \* the loader script that filled the database
    child,          \* the child-pass script that is run, "none" before it
    pc,             \* the statement the running script is at
    idx,            \* the loop index of df.iterrows()
    db,             \* committed content of every table, in insertion order
    serial,         \* the SERIAL sequence of every table (next id)
    person_map, firm_map, location_map, school_map, company_map,
    staged,         \* the in-memory row lists (*_data, *_batch, all_*)
    errors,         \* <<script, idx>> of the records reported as failed
    faults,         \* storage failures that have happened so far
    earlier         \* the row counts an earlier run of the pipeline left

vars == <<df, loader, child, pc, idx, db, serial, person_map, firm_map, location_map,
          school_map, company_map, staged, errors, faults, earlier>>

Tables ==
    {"persons", "firms", "locations", "investors", "schools", "companies",
     "positions", "degrees", "investments", "areas_of_interest",
     "investment_locations", "investor_stages", "image_urls", "media_links"}

EmptyDb == [tb \in Tables |-> <<>>]
FreshSerial == [tb \in Tables |-> 1]

Rows(tb) == {db[tb][i] : i \in 1..Len(db[tb])}

\* The record the loop is at (idx counts from 0, as the RangeIndex does).
row == df[idx + 1]

\* The value of a one-element set {e(x) : x \in {v}}: e with x naming the
\* value of v, which is computed once however often e reads it (a local
\* variable of the script).
Once(S) == CHOOSE x \in S : TRUE

(***************************************************************************)
(* Storage.  A statement of the open transaction either appends its row    *)
(* and returns the id drawn from the table's sequence, or raises.  A       *)
(* sequence value drawn by a statement that raises afterwards stays        *)
(* consumed (sequences are not transactional).                             *)
(*   tx.ok  no statement has raised so far                                 *)
(*   tx.id  the id returned by the last INSERT ... RETURNING id            *)
(***************************************************************************)
Exec(tx, tb, r, violates, fails, burnt) ==
    Once({IF ~t.ok THEN t
          ELSE IF fails /\ ~burnt THEN [t EXCEPT !.ok = FALSE]
          ELSE IF fails \/ violates THEN
              [t EXCEPT !.ok = FALSE, !.serial[tb] = @ + 1]
          ELSE [t EXCEPT !.db[tb] = Append(@, [id |-> t.serial[tb]] @@ r),
                         !.serial[tb] = @ + 1,
                         !.id = t.serial[tb]] : t \in {tx}})

Ids(d, tb) == {d[tb][i].id : i \in 1..Len(d[tb])}
\* UNIQUE (slug): a second non-null slug is rejected.
SlugTaken(d, tb, slug) ==
    slug # NULL /\ \E i \in 1..Len(d[tb]) : d[tb][i].slug = slug
\* REFERENCES: a non-null foreign key must name an existing row.
FkBroken(d, tb, id) == id # NoId /\ id \notin Ids(d, tb)

\* The storage failures a step may meet: none, or one at its at-th
\* statement, before or after the statement drew its id.
Faults(n) ==
    {[at |-> 0, burnt |-> FALSE]}
    \cup (IF faults < MaxFaults
          THEN [at : 1..n, burnt : BOOLEAN] ELSE {})

(***************************************************************************)
(* export_relational.py: process_investor_data, one iteration of the loop. *)
(***************************************************************************)
RbrPerson(tx0, r, i, f) ==
    Once({
        LET person_data == safe_get(r, "person", EmptyDict)
            person_slug ==
                Sql(safe_get(person_data, "slug", Str("person_" \o ToString(i))))
        IN  IF Truthy(person_data) /\ person_data.t = "dict"
            THEN IF ~InMap(tx.person_map, person_slug)
                 THEN LET t == Exec(tx, "persons",
                                    [slug |-> person_slug,
                                     name |-> Sql(safe_get(person_data, "name", PyNone))],
                                    SlugTaken(tx.db, "persons", person_slug),
                                    f.at = 1, f.burnt)
                      IN  IF t.ok
                          THEN [t EXCEPT !.person_map = MapPut(@, person_slug, t.id),
                                         !.person_id = t.id]
                          ELSE t
                 ELSE [tx EXCEPT !.person_id = MapAt(tx.person_map, person_slug)]
            ELSE tx
        : tx \in {tx0}})

RbrLocation(tx0, r, f) ==
    Once({
        LET location_data == safe_get(r, "location", EmptyDict)
            location_name == safe_get(location_data, "display_name", PyNone)
            key == Sql(location_name)
        IN  IF ~tx.ok THEN tx
            ELSE IF Truthy(location_data) /\ location_data.t = "dict"
            THEN IF Truthy(location_name) /\ ~InMap(tx.location_map, key)
                 THEN LET t == Exec(tx, "locations",
                                    [display_name |-> key,
                                     kind |-> Sql(safe_get(location_data, "kind",
                                                           Str("location")))],
                                    FALSE, f.at = 2, f.burnt)
                      IN  IF t.ok
                          THEN [t EXCEPT !.location_map = MapPut(@, key, t.id),
                                         !.location_id = t.id]
                          ELSE t
                 ELSE IF Truthy(location_name)
                 THEN [tx EXCEPT !.location_id = MapAt(tx.location_map, key)]
                 ELSE tx
            ELSE tx
        : tx \in {tx0}})

RbrFirm(tx0, r, i, f) ==
    Once({
        LET firm_data == safe_get(r, "firm", EmptyDict)
            firm_slug ==
                Sql(safe_get(firm_data, "slug", Str("firm_" \o ToString(i))))
        IN  IF ~tx.ok THEN tx
            ELSE IF Truthy(firm_data) /\ firm_data.t = "dict"
            THEN IF ~InMap(tx.firm_map, firm_slug)
                 THEN LET t == Exec(tx, "firms",
                                    [slug |-> firm_slug,
                                     name |-> Sql(safe_get(firm_data, "name", PyNone))],
                                    SlugTaken(tx.db, "firms", firm_slug),
                                    f.at = 3, f.burnt)
                      IN  IF t.ok
                          THEN [t EXCEPT !.firm_map = MapPut(@, firm_slug, t.id),
                                         !.firm_id = t.id]
                          ELSE t
                 ELSE [tx EXCEPT !.firm_id = MapAt(tx.firm_map, firm_slug)]
            ELSE tx
        : tx \in {tx0}})

\* rec is bookkeeping, not a column: the ordinal of the source record the
\* row was built from.
RbrInvestor(tx0, i, f) ==
    Once({
        Exec(tx, "investors",
             [person_id |-> tx.person_id, firm_id |-> tx.firm_id,
              location_id |-> tx.location_id, rec |-> i + 1],
             \/ FkBroken(tx.db, "persons", tx.person_id)
             \/ FkBroken(tx.db, "firms", tx.firm_id)
             \/ FkBroken(tx.db, "locations", tx.location_id),
             f.at = 4, f.burnt)
        : tx \in {tx0}})

RbrRecord(r, i, f) ==
    LET begin == [ok |-> TRUE, id |-> NoId, db |-> db, serial |-> serial,
                  person_map |-> person_map, firm_map |-> firm_map,
                  location_map |-> location_map,
                  person_id |-> NoId, firm_id |-> NoId, location_id |-> NoId]
    IN  RbrInvestor(RbrFirm(RbrLocation(RbrPerson(begin, r, i, f), r, f),
                            r, i, f), i, f)

\* A loop without the try: the record that fails ends it.
process_investor_data_m ==
    /\ pc = "rbr"
    /\ idx < Len(df)
    /\ \E f \in Faults(4) :
        \E tx \in {RbrRecord(row, idx, f)} :
            /\ db' = IF tx.ok THEN tx.db ELSE db
            /\ serial' = tx.serial
            /\ person_map' = tx.person_map
            /\ firm_map' = tx.firm_map
            /\ location_map' = tx.location_map
            /\ errors' = IF tx.ok THEN errors ELSE errors \cup {<<"rbr", idx>>}
            /\ faults' = IF f.at # 0 /\ ~tx.ok THEN faults + 1 ELSE faults
            /\ idx' = IF tx.ok THEN idx + 1 ELSE idx
            /\ pc' = IF ~tx.ok THEN "aborted_record"
                     ELSE IF idx + 1 = Len(df) THEN "loaded" ELSE "rbr"
    /\ UNCHANGED <<df, earlier, loader, child, school_map, company_map, staged>>

process_investor_data ==
    /\ pc = "rbr"
    /\ idx < Len(df)
    /\ \E f \in Faults(4) :
        \E tx \in {RbrRecord(row, idx, f)} :
            /\ db' = IF tx.ok THEN tx.db ELSE db     \* commit / rollback
            /\ serial' = tx.serial
            /\ person_map' = tx.person_map
            /\ firm_map' = tx.firm_map
            /\ location_map' = tx.location_map
            /\ errors' = IF tx.ok THEN errors ELSE errors \cup {<<"rbr", idx>>}
            /\ faults' = IF f.at # 0 /\ ~tx.ok THEN faults + 1 ELSE faults
    /\ idx' = idx + 1
    /\ pc' = IF idx + 1 = Len(df) THEN "loaded" ELSE "rbr"
    /\ UNCHANGED <<df, earlier, loader, child, school_map, company_map, staged>>

(***************************************************************************)
(* export_relational_fast.py: extract_and_bulk_insert.                     *)
(***************************************************************************)
\* Insert in batches of 1000: the batch size, scaled down with the number
\* of records so that a batch fills within MaxRecords records.
BatchSize == 2

\* pd.notna(v): False for None; for a dict (any scalar object) True.  For a
\* list-like the result is an array, whose use as a condition raises unless
\* it has at most one element.
NotnaRaises(v) == v.t \in {"ndarray", "list"} /\ Len(v.items) > 1
Notna(v) ==
    CASE v.t = "none" -> FALSE
      [] v.t \in {"ndarray", "list"} ->
            Len(v.items) = 1 /\ v.items[1].t # "none"
      [] OTHER -> TRUE

\* row.get(key, {}) if pd.notna(row.get(key)) else {}
Cell(r, key) ==
    IF Notna(Get(r, key, PyNone)) THEN Get(r, key, EmptyDict) ELSE EmptyDict
CellRaises(r, key) == NotnaRaises(Get(r, key, PyNone))

IsFilledDict(v) == v.t = "dict" /\ Truthy(v)

\* A drop_duplicates that keeps the last row of every key.
DropDuplicates_last(rows, key) ==
    LET keep == {i \in 1..Len(rows) :
                    \A j \in (i + 1)..Len(rows) : rows[j][key] # rows[i][key]}
        RECURSIVE Pick(_)
        Pick(i) == IF i > Len(rows) THEN <<>>
                   ELSE IF i \in keep THEN <<rows[i]>> \o Pick(i + 1)
                   ELSE Pick(i + 1)
    IN  Pick(1)

\* A drop_duplicates that drops nothing.
DropDuplicates_m(rows, key) == rows

\* DataFrame.drop_duplicates(subset=[key]): the first row of every key
\* stays (null keys count as equal to each other).
DropDuplicates(rows, key) ==
    LET keep == {i \in 1..Len(rows) :
                    \A j \in 1..(i - 1) : rows[j][key] # rows[i][key]}
        RECURSIVE Pick(_)
        Pick(i) == IF i > Len(rows) THEN <<>>
                   ELSE IF i \in keep THEN <<rows[i]>> \o Pick(i + 1)
                   ELSE Pick(i + 1)
    IN  Pick(1)

\* A mapping read that yields nothing.
MapOfTable_m(rows, key) == {}

\* {row[1]: row[0] for row in SELECT id, key FROM table}: of several rows
\* with one key the last one fetched stays.
MapOfTable(rows, key) ==
    {<<rows[i][key], rows[i].id>> :
        i \in {k \in 1..Len(rows) :
                  \A j \in (k + 1)..Len(rows) : rows[j][key] # rows[k][key]}}

\* to_sql(..., if_exists='append'): every row gets the next id of the
\* table's sequence, in one transaction.
RECURSIVE Numbered(_, _)
Numbered(rows, first) ==
    IF rows = <<>> THEN <<>>
    ELSE <<[id |-> first] @@ Head(rows)>> \o Numbered(Tail(rows), first + 1)

\* A bulk insert that loses the first row of the batch.
ToSql_m(d, sq, tb, rows) ==
    [db |-> [d EXCEPT ![tb] = @ \o Numbered(SubSeq(rows, 2, Len(rows)), sq[tb])],
     serial |-> [sq EXCEPT ![tb] = @ + Len(SubSeq(rows, 2, Len(rows)))]]

ToSql(d, sq, tb, rows) ==
    [db |-> [d EXCEPT ![tb] = @ \o Numbered(rows, sq[tb])],
     serial |-> [sq EXCEPT ![tb] = @ + Len(rows)]]

\* The rows one record adds to persons_data, firms_data, locations_data.
PersonDraft(r, i) ==
    LET person == Cell(r, "person")
    IN  IF IsFilledDict(person)
        THEN <<[slug |-> Sql(Get(person, "slug", Str("person_" \o ToString(i)))),
                name |-> Sql(Get(person, "name", PyNone))]>>
        ELSE <<>>

FirmDraft(r, i) ==
    LET firm == Cell(r, "firm")
    IN  IF IsFilledDict(firm)
        THEN <<[slug |-> Sql(Get(firm, "slug", Str("firm_" \o ToString(i)))),
                name |-> Sql(Get(firm, "name", PyNone))]>>
        ELSE <<>>

LocationDraft(r) ==
    LET location == Cell(r, "location")
    IN  IF IsFilledDict(location)
        THEN <<[display_name |-> Sql(Get(location, "display_name", PyNone)),
                kind |-> Sql(Get(location, "kind", Str("location")))]>>
        ELSE <<>>

RowRaises(r) ==
    CellRaises(r, "person") \/ CellRaises(r, "firm") \/ CellRaises(r, "location")

\* First loop: one iteration.
fast_extract ==
    /\ pc = "fast_extract"
    /\ idx < Len(df)
    /\ IF RowRaises(row)
       THEN /\ pc' = "aborted_record"
            /\ UNCHANGED <<idx, staged>>
       ELSE /\ staged' = [staged EXCEPT
                             !.persons_data = @ \o PersonDraft(row, idx),
                             !.firms_data = @ \o FirmDraft(row, idx),
                             !.locations_data = @ \o LocationDraft(row)]
            /\ idx' = idx + 1
            /\ pc' = IF idx + 1 = Len(df) THEN "fast_bulk" ELSE "fast_extract"
    /\ UNCHANGED <<df, earlier, loader, child, db, serial, person_map, firm_map,
                   location_map, school_map, company_map, errors, faults>>

\* The three bulk inserts of the dimension tables and the reading of the
\* foreign key mappings.  A to_sql that raises ends the function; what the
\* earlier ones wrote stays.
fast_bulk ==
    /\ pc = "fast_bulk"
    /\ \E f \in Faults(3) :
        LET persons_df == DropDuplicates(staged.persons_data, "slug")
            firms_df == DropDuplicates(staged.firms_data, "slug")
            locations_df == DropDuplicates(staged.locations_data, "display_name")
            s0 == [db |-> db, serial |-> serial]
            s1 == IF f.at = 1 THEN s0
                  ELSE ToSql(s0.db, s0.serial, "persons", persons_df)
            s2 == Once({IF f.at \in {1, 2} THEN s
                        ELSE ToSql(s.db, s.serial, "firms", firms_df)
                           : s \in {s1}})
            s3 == Once({IF f.at \in {1, 2, 3} THEN s
                        ELSE ToSql(s.db, s.serial, "locations", locations_df)
                           : s \in {s2}})
            \* a to_sql is only issued for a non-empty list
            hit == \/ f.at = 1 /\ staged.persons_data # <<>>
                   \/ f.at = 2 /\ staged.firms_data # <<>>
                   \/ f.at = 3 /\ staged.locations_data # <<>>
        IN  \E w \in {s3} :
            /\ f.at # 0 => hit
            /\ db' = w.db
            /\ serial' = w.serial
            /\ IF f.at # 0
               THEN /\ pc' = "aborted_storage"
                    /\ faults' = faults + 1
                    /\ UNCHANGED <<person_map, firm_map, location_map>>
               ELSE /\ pc' = "fast_investors"
                    /\ faults' = faults
                    /\ person_map' = MapOfTable(w.db.persons, "slug")
                    /\ firm_map' = MapOfTable(w.db.firms, "slug")
                    /\ location_map' = MapOfTable(w.db.locations, "display_name")
    /\ idx' = 0
    /\ UNCHANGED <<df, earlier, loader, child, school_map, company_map, staged, errors>>

\* The investor row of one record, with its foreign keys.
InvestorDraft(r, i, pm, fm, lm) ==
    LET person == Cell(r, "person")
        firm == Cell(r, "firm")
        location == Cell(r, "location")
    IN  [person_id |->
            IF IsFilledDict(person)
            THEN MapGet(pm, Sql(Get(person, "slug",
                                    Str("person_" \o ToString(i)))))
            ELSE NoId,
         firm_id |->
            IF IsFilledDict(firm)
            THEN MapGet(fm, Sql(Get(firm, "slug", Str("firm_" \o ToString(i)))))
            ELSE NoId,
         location_id |->
            IF IsFilledDict(location)
            THEN MapGet(lm, Sql(Get(location, "display_name", PyNone)))
            ELSE NoId,
         rec |-> i + 1]

\* An append that leaves out the record without a person.
InvestorRows_m(r, i, pm, fm, lm) ==
    IF InvestorDraft(r, i, pm, fm, lm).person_id = NoId THEN <<>>
    ELSE <<InvestorDraft(r, i, pm, fm, lm)>>

\* investors_batch.append(investor_data)
InvestorRows(r, i, pm, fm, lm) == <<InvestorDraft(r, i, pm, fm, lm)>>

\* Second loop: one iteration, with the flush of a full batch.
fast_investors ==
    /\ pc = "fast_investors"
    /\ idx < Len(df)
    /\ \E f \in Faults(1) :
        \E investors_batch \in
               {staged.investors_batch
                \o InvestorRows(row, idx, person_map, firm_map, location_map)} :
        LET raises == RowRaises(row)
            full == Len(investors_batch) >= BatchSize
            s == ToSql(db, serial, "investors", investors_batch)
        IN  /\ f.at # 0 => full /\ ~raises
            /\ IF raises \/ f.at # 0
               THEN /\ pc' = IF raises THEN "aborted_record" ELSE "aborted_storage"
                    /\ faults' = IF raises THEN faults ELSE faults + 1
                    /\ UNCHANGED <<idx, db, serial, staged>>
               ELSE /\ db' = IF full THEN s.db ELSE db
                    /\ serial' = IF full THEN s.serial ELSE serial
                    /\ staged' = [staged EXCEPT !.investors_batch =
                                     IF full THEN <<>> ELSE investors_batch]
                    /\ idx' = idx + 1
                    /\ pc' = IF idx + 1 = Len(df) THEN "fast_final"
                             ELSE "fast_investors"
                    /\ faults' = faults
    /\ UNCHANGED <<df, earlier, loader, child, person_map, firm_map, location_map, school_map,
                   company_map, errors>>

\* Insert remaining investors.
fast_final ==
    /\ pc = "fast_final"
    /\ \E f \in Faults(1) :
        \E s \in {ToSql(db, serial, "investors", staged.investors_batch)} :
            /\ f.at # 0 => staged.investors_batch # <<>>
            /\ IF f.at # 0
               THEN /\ pc' = "aborted_storage"
                    /\ faults' = faults + 1
                    /\ UNCHANGED <<db, serial>>
               ELSE /\ pc' = "loaded"
                    /\ faults' = faults
                    /\ db' = s.db
                    /\ serial' = s.serial
    /\ UNCHANGED <<df, earlier, loader, child, idx, person_map, firm_map, location_map, school_map,
                   company_map, staged, errors>>

(***************************************************************************)
(* Child passes: what the three scripts share.                             *)
(***************************************************************************)
\* `for x in v` raises TypeError unless v is a sequence.
Iterable(v) == v.t \in {"ndarray", "list"}

IsDict(v) == v.t = "dict"
\* `if url and isinstance(url, str)`
IsUrl(v) == v.t = "str" /\ Truthy(v)

\* One row per element that is a dict: investor_id, kind, display_name.
KindRows(v, investor_id) ==
    LET sel == SelectSeq(v.items, IsDict)
    IN  [i \in 1..Len(sel) |->
            [investor_id |-> investor_id,
             kind |-> Sql(safe_get(sel[i], "kind", PyNone)),
             display_name |-> Sql(safe_get(sel[i], "display_name", PyNone)),
             rec |-> investor_id]]

\* Image rows that lose the flag of the array they came from.
ImageRows_m(v, investor_id, is_edit_mode) ==
    LET sel == SelectSeq(v.items, IsUrl)
    IN  [i \in 1..Len(sel) |->
            [investor_id |-> investor_id, url |-> sel[i].s,
             is_edit_mode |-> FALSE, rec |-> investor_id]]

\* One row per element that is a non-empty string.
ImageRows(v, investor_id, is_edit_mode) ==
    LET sel == SelectSeq(v.items, IsUrl)
    IN  [i \in 1..Len(sel) |->
            [investor_id |-> investor_id, url |-> sel[i].s,
             is_edit_mode |-> is_edit_mode, rec |-> investor_id]]

MediaRows(v, investor_id) ==
    LET sel == SelectSeq(v.items, IsDict)
    IN  [i \in 1..Len(sel) |->
            [investor_id |-> investor_id,
             url |-> Sql(safe_get(sel[i], "url", PyNone)),
             title |-> Sql(safe_get(sel[i], "title", PyNone)),
             image_url |-> Sql(safe_get(sel[i], "image_url", PyNone)),
             rec |-> investor_id]]

\* ndarray.tolist() of an object array: the elements stay what they are.
ToList(v) == IF v.t = "ndarray" THEN PyList(v.items) ELSE v

\* json.dumps raises TypeError on a value that holds an ndarray.
RECURSIVE JsonRaises(_)
JsonRaises(v) ==
    CASE v.t = "ndarray" -> TRUE
      [] v.t = "list" -> \E i \in 1..Len(v.items) : JsonRaises(v.items[i])
      [] v.t = "dict" -> \E k \in DOMAIN v.kv : JsonRaises(v.kv[k])
      [] OTHER -> FALSE

\* json.dumps: the canonical text of the value.
RECURSIVE JsonDumps(_)
JsonDumps(v) ==
    CASE v.t = "none" -> "null"
      [] v.t = "str" -> "\"" \o v.s \o "\""
      [] v.t = "list" ->
            LET RECURSIVE Join(_)
                Join(i) == IF i > Len(v.items) THEN ""
                           ELSE (IF i > 1 THEN ", " ELSE "")
                                \o JsonDumps(v.items[i]) \o Join(i + 1)
            IN  "[" \o Join(1) \o "]"
      [] OTHER -> "?"

(***************************************************************************)
(* Lazy creation of a Company / School while a position / degree is built. *)
(* st carries the connection (db, serial), the two registries and the rows *)
(* appended so far.  guarded: the INSERT has its own try/except with a     *)
(* rollback (populate_nested_data_fixed.py); otherwise the exception       *)
(* leaves the record.                                                      *)
(***************************************************************************)
LazyDim(st0, tb, reg, data, f, n, guarded) ==
    Once({
        LET name == safe_get(data, "name", PyNone)
            key == Sql(name)
        IN  IF data.t = "dict" /\ Truthy(data) /\ Truthy(name)
            THEN IF ~InMap(st[reg], key)
                 THEN LET first == st.inserts[tb] = 0
                          t == Exec([st EXCEPT !.inserts[tb] = @ + 1], tb,
                                    [name |-> key,
                                     display_name |->
                                         Sql(safe_get(data, "display_name", name))],
                                    FALSE, f.at = n /\ first, f.burnt)
                      IN  IF t.ok
                          THEN [t EXCEPT ![reg] = MapPut(@, key, t.id)]
                          ELSE IF guarded
                          THEN [t EXCEPT !.ok = TRUE, !.id = NoId, !.faulted = TRUE]
                          ELSE [t EXCEPT !.id = NoId, !.faulted = TRUE]
                 ELSE [st EXCEPT !.id = MapAt(st[reg], key)]
            ELSE [st EXCEPT !.id = NoId]
        : st \in {st0}})

RECURSIVE PositionLoop(_, _, _, _, _, _, _)
PositionLoop(items, k, st0, person_id, ordinal, f, guarded) ==
    Once({
        IF k > Len(items) \/ ~st.ok THEN st
        ELSE IF items[k].t # "dict"
        THEN PositionLoop(items, k + 1, st, person_id, ordinal, f, guarded)
        ELSE LET pos == items[k]
                 t == LazyDim(st, "companies", "company_map",
                              safe_get(pos, "company", EmptyDict), f, 1, guarded)
                 u == IF t.ok
                      THEN [t EXCEPT !.positions =
                               Append(@, [person_id |-> person_id,
                                          company_id |-> t.id,
                                          title |-> Sql(safe_get(pos, "title", PyNone)),
                                          rec |-> ordinal])]
                      ELSE t
             IN  PositionLoop(items, k + 1, u, person_id, ordinal, f, guarded)
        : st \in {st0}})

RECURSIVE DegreeLoop(_, _, _, _, _, _, _)
DegreeLoop(items, k, st0, person_id, ordinal, f, guarded) ==
    Once({
        IF k > Len(items) \/ ~st.ok THEN st
        ELSE IF items[k].t # "dict"
        THEN DegreeLoop(items, k + 1, st, person_id, ordinal, f, guarded)
        ELSE LET degree == items[k]
                 t == LazyDim(st, "schools", "school_map",
                              safe_get(degree, "school", EmptyDict), f, 2, guarded)
                 u == IF t.ok
                      THEN [t EXCEPT !.degrees =
                               Append(@, [person_id |-> person_id,
                                          school_id |-> t.id,
                                          degree_name |-> Sql(safe_get(degree, "name", PyNone)),
                                          rec |-> ordinal])]
                      ELSE t
             IN  DegreeLoop(items, k + 1, u, person_id, ordinal, f, guarded)
        : st \in {st0}})

\* The state a record's extraction starts in.
Start ==
    [ok |-> TRUE, id |-> NoId, faulted |-> FALSE,
     db |-> db, serial |-> serial,
     inserts |-> [tb \in {"companies", "schools"} |-> 0],
     company_map |-> company_map, school_map |-> school_map,
     positions |-> <<>>, degrees |-> <<>>, investments |-> <<>>,
     areas_of_interest |-> <<>>, investment_locations |-> <<>>,
     investor_stages |-> <<>>, image_urls |-> <<>>, media_links |-> <<>>]

ChildTables ==
    {"positions", "degrees", "investments", "areas_of_interest",
     "investment_locations", "investor_stages", "image_urls", "media_links"}

\* The outcome of a loop over elements, each of which emits a row, emits
\* nothing, or raises: the rows emitted before the first element that
\* raises, and whether none raised.
Emitted(outs0) ==
    Once({
        LET bad == {i \in 1..Len(outs) : outs[i].raises}
            cut == IF bad = {} THEN Len(outs)
                   ELSE (CHOOSE i \in bad : \A j \in bad : i <= j) - 1
            sel == SelectSeq(SubSeq(outs, 1, cut), LAMBDA o : o.emit)
        IN  [ok |-> bad = {}, rows |-> [i \in 1..Len(sel) |-> sel[i].row]]
        : outs \in {outs0}})

Skip == [emit |-> FALSE, raises |-> FALSE, row |-> <<>>]
Raise == [emit |-> FALSE, raises |-> TRUE, row |-> <<>>]
Emit(r) == [emit |-> TRUE, raises |-> FALSE, row |-> r]
NoRows == [ok |-> TRUE, rows |-> <<>>]

\* st with the rows of one extraction step added to those of table tb.
Then(st0, tb, res) ==
    Once({
        IF st.ok THEN [st EXCEPT ![tb] = @ \o res.rows, !.ok = res.ok] ELSE st
        : st \in {st0}})

\* A batch the storage rejects: a foreign key that names no row.
BatchViolates(d, tb, rows) ==
    \E i \in 1..Len(rows) :
        CASE tb \in {"positions", "degrees"} ->
                \/ FkBroken(d, "persons", rows[i].person_id)
                \/ tb = "positions" /\ FkBroken(d, "companies", rows[i].company_id)
                \/ tb = "degrees" /\ FkBroken(d, "schools", rows[i].school_id)
          [] tb \in ChildTables \ {"positions", "degrees"} ->
                FkBroken(d, "investors", rows[i].investor_id)
          [] OTHER -> FALSE

\* pd.DataFrame(batch).to_sql(table, if_exists='append') for the non-empty
\* batches of order, one after the other; the first that raises ends it.
\* clear: the script empties a batch it has written.
RECURSIVE Flush(_, _, _, _, _)
Flush(order, k, st0, failAt, clear) ==
    Once({
        IF k > Len(order) \/ ~st.ok THEN st
        ELSE LET tb == order[k]
                 rows == st.staged[tb]
                 w == ToSql(st.db, st.serial, tb, rows)
             IN  IF rows = <<>> THEN Flush(order, k + 1, st, failAt, clear)
                 ELSE IF failAt = k \/ BatchViolates(st.db, tb, rows)
                 THEN [st EXCEPT !.ok = FALSE, !.faulted = (failAt = k)]
                 ELSE Flush(order, k + 1,
                            [st EXCEPT !.db = w.db, !.serial = w.serial,
                                       !.staged[tb] = IF clear THEN <<>> ELSE @],
                            failAt, clear)
        : st \in {st0}})

FlushOrder ==
    <<"positions", "degrees", "investments", "areas_of_interest",
      "investment_locations", "investor_stages", "image_urls", "media_links">>

\* staged with the rows a record's extraction appended.
Staged(st) == [n \in DOMAIN staged |->
                  IF n \in ChildTables THEN staged[n] \o st[n] ELSE staged[n]]

(***************************************************************************)
(* populate_nested_data.py: process_nested_data.                           *)
(***************************************************************************)
\* A start that reads no mapping from storage.
nested_begin_m ==
    /\ pc = "loaded"
    /\ pc' = "nested_loop"
    /\ child' = "nested"
    /\ idx' = 0
    /\ person_map' = {}
    /\ firm_map' = {}
    /\ location_map' = {}
    /\ school_map' = {}
    /\ company_map' = {}
    /\ staged' = [n \in DOMAIN staged |-> <<>>]
    /\ UNCHANGED <<df, earlier, loader, db, serial, errors, faults>>

\* Get existing mappings; empty batches and registries.
nested_begin ==
    /\ pc = "loaded"
    /\ pc' = "nested_loop"
    /\ child' = "nested"
    /\ idx' = 0
    /\ person_map' = MapOfTable(db.persons, "slug")
    /\ firm_map' = MapOfTable(db.firms, "slug")
    /\ location_map' = MapOfTable(db.locations, "display_name")
    /\ school_map' = {}
    /\ company_map' = {}
    /\ staged' = [n \in DOMAIN staged |-> <<>>]
    /\ UNCHANGED <<df, earlier, loader, db, serial, errors, faults>>

\* json.dumps(total_raised) if total_raised else None
NestedPayload(total_raised) ==
    IF TruthRaises(total_raised) THEN [raises |-> TRUE, text |-> NULL]
    ELSE IF Truthy(total_raised)
    THEN [raises |-> JsonRaises(total_raised), text |-> JsonDumps(total_raised)]
    ELSE [raises |-> FALSE, text |-> NULL]

NestedInvestment(edge, investor_id) ==
    LET node == safe_get(edge, "element", EmptyDict)
        node_data == safe_get(node, "node", EmptyDict)
        company_name == safe_get(node_data, "company_display_name", PyNone)
        payload == NestedPayload(safe_get(node_data, "total_raised", EmptyList))
    IN  IF edge.t = "dict" /\ node.t = "dict" /\ node_data.t = "dict"
           /\ Truthy(company_name)
        THEN IF payload.raises THEN Raise
             ELSE Emit([investor_id |-> investor_id,
                        company_display_name |-> Sql(company_name),
                        total_raised_json |-> payload.text,
                        rec |-> investor_id])
        ELSE Skip

\* stage_element = safe_get(stage, 'element', stage)
Unwrapped(v) ==
    LET sel == SelectSeq(v.items, IsDict)
        un == [i \in 1..Len(sel) |-> safe_get(sel[i], "element", sel[i])]
    IN  PyList(un)

NestedExtract(r, i, f) ==
    LET investor_id == i + 1
        person_data == safe_get(r, "person", EmptyDict)
        person_id ==
            IF person_data.t = "dict" /\ Truthy(person_data)
            THEN MapGet(person_map,
                        Sql(safe_get(person_data, "slug",
                                     Str("person_" \o ToString(i)))))
            ELSE NoId
        positions_data == safe_get(r, "positions", EmptyList)
        degrees_data == safe_get(r, "degrees", EmptyList)
        investments_data == safe_get(r, "investments_on_record", EmptyDict)
        edges == safe_get(investments_data, "edges", EmptyList)
        areas_data == safe_get(r, "areas_of_interest", EmptyList)
        inv_locations_data == safe_get(r, "investment_locations", EmptyList)
        stages_data == safe_get(r, "stages", EmptyList)
        image_urls_data == safe_get(r, "image_urls", EmptyList)
        edit_image_urls_data == safe_get(r, "image_urls_edit_mode", EmptyList)
        media_data == safe_get(r, "media_links", EmptyList)
        s1 == IF positions_data.t = "list" /\ person_id # NoId
              THEN PositionLoop(positions_data.items, 1, Start, person_id,
                                investor_id, f, FALSE)
              ELSE Start
        s2 == IF degrees_data.t = "list" /\ person_id # NoId
              THEN DegreeLoop(degrees_data.items, 1, s1, person_id,
                              investor_id, f, FALSE)
              ELSE s1
        s3 == Then(s2, "investments",
                   IF investments_data.t = "dict" /\ edges.t = "list"
                   THEN Emitted([k \in 1..Len(edges.items) |->
                                    NestedInvestment(edges.items[k], investor_id)])
                   ELSE NoRows)
        s4 == Then(s3, "areas_of_interest",
                   IF areas_data.t = "list"
                   THEN [ok |-> TRUE, rows |-> KindRows(areas_data, investor_id)]
                   ELSE NoRows)
        s5 == Then(s4, "investment_locations",
                   IF inv_locations_data.t = "list"
                   THEN [ok |-> TRUE,
                         rows |-> KindRows(inv_locations_data, investor_id)]
                   ELSE NoRows)
        s6 == Then(s5, "investor_stages",
                   IF stages_data.t = "list"
                   THEN [ok |-> TRUE,
                         rows |-> KindRows(Unwrapped(stages_data), investor_id)]
                   ELSE NoRows)
        s7 == Then(s6, "image_urls",
                   IF image_urls_data.t = "list"
                   THEN [ok |-> TRUE,
                         rows |-> ImageRows(image_urls_data, investor_id, FALSE)]
                   ELSE NoRows)
        s8 == Then(s7, "image_urls",
                   IF edit_image_urls_data.t = "list"
                   THEN [ok |-> TRUE,
                         rows |-> ImageRows(edit_image_urls_data, investor_id, TRUE)]
                   ELSE NoRows)
    IN  Then(s8, "media_links",
             IF media_data.t = "list"
             THEN [ok |-> TRUE,
                   rows |-> MediaRows(Unwrapped(media_data), investor_id)]
             ELSE NoRows)

\* Bulk insert every 1000 records: all batches, once positions_batch holds
\* BatchSize rows.
NestedFlush(st0, failAt) ==
    Once({
        IF st.ok /\ Len(Staged(st).positions) >= BatchSize
        THEN Flush(FlushOrder, 1,
                   [ok |-> TRUE, faulted |-> FALSE, db |-> st.db,
                    serial |-> st.serial, staged |-> Staged(st)],
                   failAt, TRUE)
        ELSE [ok |-> st.ok, faulted |-> FALSE, db |-> st.db,
              serial |-> st.serial, staged |-> Staged(st)]
        : st \in {st0}})

\* What one iteration leaves: st after the extraction, w after the flush.
NestedOutcome(st, w, f) ==
    /\ f.at # 0 => st.faulted \/ w.faulted
    /\ db' = w.db
    /\ serial' = w.serial
    /\ staged' = w.staged
    /\ company_map' = st.company_map
    /\ school_map' = st.school_map
    /\ errors' = IF w.ok THEN errors ELSE errors \cup {<<"nested", idx>>}
    /\ faults' = IF f.at # 0 THEN faults + 1 ELSE faults

\* One iteration of the loop: extraction, then the bulk insert of every
\* batch once positions_batch holds BatchSize rows, all inside the try.
nested_record ==
    /\ pc = "nested_loop"
    /\ idx < Len(df)
    /\ \E f \in Faults(2 + Len(FlushOrder)) :
        \E st \in {NestedExtract(row, idx, f)} :
            \E w \in {NestedFlush(st, f.at - 2)} : NestedOutcome(st, w, f)
    /\ idx' = idx + 1
    /\ pc' = IF idx + 1 = Len(df) THEN "nested_final" ELSE "nested_loop"
    /\ UNCHANGED <<df, earlier, loader, child, person_map, firm_map, location_map>>

\* Final bulk insert of remaining data; an exception leaves the function.
nested_final ==
    /\ pc = "nested_final"
    /\ \E f \in Faults(Len(FlushOrder)) :
        \E w \in {Flush(FlushOrder, 1,
                          [ok |-> TRUE, faulted |-> FALSE, db |-> db,
                           serial |-> serial, staged |-> staged],
                          f.at, FALSE)} :
            /\ f.at # 0 => w.faulted
            /\ db' = w.db
            /\ serial' = w.serial
            /\ pc' = IF w.ok THEN "done" ELSE "aborted_storage"
            /\ faults' = IF f.at # 0 THEN faults + 1 ELSE faults
    /\ UNCHANGED <<df, earlier, loader, child, idx, person_map, firm_map, location_map, school_map,
                   company_map, staged, errors>>

(***************************************************************************)
(* populate_nested_data_fixed.py: process_nested_data.                     *)
(***************************************************************************)
\* A check that takes anything but an empty array for valid.
is_valid_array_m(arr) == arr.t # "ndarray" \/ Len(arr.items) > 0

is_valid_array(arr) == arr.t = "ndarray" /\ Len(arr.items) > 0

\* Empty batches and registries.
fixed_begin ==
    /\ pc = "loaded"
    /\ pc' = "fixed_loop"
    /\ child' = "fixed"
    /\ idx' = 0
    /\ school_map' = {}
    /\ company_map' = {}
    /\ staged' = [n \in DOMAIN staged |-> <<>>]
    /\ UNCHANGED <<df, earlier, loader, db, serial, person_map, firm_map, location_map,
                   errors, faults>>

\* SELECT id FROM persons WHERE slug = :slug, fetchone(): a null slug
\* matches no row.
SelectPersonId(d, slug) ==
    LET hits == {i \in 1..Len(d.persons) :
                    slug # NULL /\ d.persons[i].slug = slug}
    IN  IF hits = {} THEN NoId
        ELSE d.persons[CHOOSE i \in hits : \A j \in hits : i <= j].id

\* json.dumps(total_raised.tolist() if it is an ndarray else total_raised)
\* if total_raised is not None else None
FixedPayload(total_raised) ==
    IF total_raised.t # "none"
    THEN [raises |-> JsonRaises(ToList(total_raised)),
          text |-> JsonDumps(ToList(total_raised))]
    ELSE [raises |-> FALSE, text |-> NULL]

FixedInvestment(edge, investor_id) ==
    LET node == safe_get(edge, "node", EmptyDict)
        company_name == safe_get(node, "company_display_name", PyNone)
        payload == FixedPayload(safe_get(node, "total_raised", EmptyList))
    IN  IF edge.t = "dict" /\ node.t = "dict" /\ Truthy(company_name)
        THEN IF payload.raises THEN Raise
             ELSE Emit([investor_id |-> investor_id,
                        company_display_name |-> Sql(company_name),
                        total_raised_json |-> payload.text,
                        rec |-> investor_id])
        ELSE Skip

\* The rows of one array cell: none unless the cell is a non-empty array.
\* A cell that passes the guard and is no sequence makes the for raise.
Guarded(guard, v, rows) ==
    IF guard THEN [ok |-> Iterable(v), rows |-> IF Iterable(v) THEN rows ELSE <<>>]
    ELSE NoRows

\* Get person_id for this investor.
FixedPersonId(r, i) ==
    LET person_data == safe_get(r, "person", EmptyDict)
    IN  IF person_data.t = "dict" /\ Truthy(person_data)
        THEN SelectPersonId(db, Sql(safe_get(person_data, "slug",
                                             Str("person_" \o ToString(i)))))
        ELSE NoId

FixedExtract(r, i, f) ==
    LET investor_id == i + 1
        person_id == FixedPersonId(r, i)
        positions_data == Get(r, "positions", PyNone)
        degrees_data == Get(r, "degrees", PyNone)
        investments_data == Get(r, "investments_on_record", PyNone)
        edges == safe_get(investments_data, "edges", EmptyList)
        areas_data == Get(r, "areas_of_interest", PyNone)
        inv_locations_data == Get(r, "investment_locations", PyNone)
        stages_data == Get(r, "stages", PyNone)
        image_urls_data == Get(r, "image_urls", PyNone)
        edit_image_urls_data == Get(r, "image_urls_edit_mode", PyNone)
        media_data == Get(r, "media_links", PyNone)
        s1 == IF is_valid_array(positions_data) /\ person_id # NoId
              THEN IF Iterable(positions_data)
                   THEN PositionLoop(positions_data.items, 1, Start, person_id,
                                     investor_id, f, TRUE)
                   ELSE [Start EXCEPT !.ok = FALSE]
              ELSE Start
        s2 == IF is_valid_array(degrees_data) /\ person_id # NoId /\ s1.ok
              THEN IF Iterable(degrees_data)
                   THEN DegreeLoop(degrees_data.items, 1, s1, person_id,
                                   investor_id, f, TRUE)
                   ELSE [s1 EXCEPT !.ok = FALSE]
              ELSE s1
        s3 == Then(s2, "investments",
                   IF investments_data.t = "dict" /\ edges.t = "ndarray"
                      /\ Len(edges.items) > 0
                   THEN Emitted([k \in 1..Len(edges.items) |->
                                    FixedInvestment(edges.items[k], investor_id)])
                   ELSE NoRows)
        s4 == Then(s3, "areas_of_interest",
                   Guarded(is_valid_array(areas_data), areas_data,
                           KindRows(areas_data, investor_id)))
        s5 == Then(s4, "investment_locations",
                   Guarded(is_valid_array(inv_locations_data), inv_locations_data,
                           KindRows(inv_locations_data, investor_id)))
        s6 == Then(s5, "investor_stages",
                   Guarded(is_valid_array(stages_data), stages_data,
                           KindRows(stages_data, investor_id)))
        s7 == Then(s6, "image_urls",
                   Guarded(is_valid_array(image_urls_data), image_urls_data,
                           ImageRows(image_urls_data, investor_id, FALSE)))
        s8 == Then(s7, "image_urls",
                   Guarded(is_valid_array(edit_image_urls_data),
                           edit_image_urls_data,
                           ImageRows(edit_image_urls_data, investor_id, TRUE)))
    IN  Then(s8, "media_links",
             Guarded(is_valid_array(media_data), media_data,
                     MediaRows(media_data, investor_id)))

\* One iteration of the loop, inside the try.
fixed_record ==
    /\ pc = "fixed_loop"
    /\ idx < Len(df)
    /\ \E f \in Faults(2) :
        \E st \in {FixedExtract(row, idx, f)} :
            /\ f.at # 0 => st.faulted
            /\ db' = st.db
            /\ serial' = st.serial
            /\ staged' = Staged(st)
            /\ company_map' = st.company_map
            /\ school_map' = st.school_map
            /\ errors' = IF st.ok THEN errors ELSE errors \cup {<<"fixed", idx>>}
            /\ faults' = IF f.at # 0 THEN faults + 1 ELSE faults
    /\ idx' = idx + 1
    /\ pc' = IF idx + 1 = Len(df) THEN "fixed_final" ELSE "fixed_loop"
    /\ UNCHANGED <<df, earlier, loader, child, person_map, firm_map, location_map>>

\* Final bulk insert; an exception leaves the function.
fixed_final ==
    /\ pc = "fixed_final"
    /\ \E f \in Faults(Len(FlushOrder)) :
        \E w \in {Flush(FlushOrder, 1,
                          [ok |-> TRUE, faulted |-> FALSE, db |-> db,
                           serial |-> serial, staged |-> staged],
                          f.at, FALSE)} :
            /\ f.at # 0 => w.faulted
            /\ db' = w.db
            /\ serial' = w.serial
            /\ pc' = IF w.ok THEN "done" ELSE "aborted_storage"
            /\ faults' = IF f.at # 0 THEN faults + 1 ELSE faults
    /\ UNCHANGED <<df, earlier, loader, child, idx, person_map, firm_map, location_map, school_map,
                   company_map, staged, errors>>

(***************************************************************************)
(* complete_population.py: process_all_nested_data.                        *)
(***************************************************************************)
\* Clear existing nested data; get person mappings; empty lists.
complete_begin ==
    /\ pc = "loaded"
    /\ pc' = "complete_loop"
    /\ child' = "complete"
    /\ idx' = 0
    /\ db' = [tb \in Tables |-> IF tb \in ChildTables THEN <<>> ELSE db[tb]]
    /\ person_map' = MapOfTable(db.persons, "slug")
    /\ school_map' = {}
    /\ company_map' = {}
    /\ staged' = [n \in DOMAIN staged |-> <<>>]
    /\ UNCHANGED <<df, earlier, loader, serial, firm_map, location_map, errors, faults>>

\* isinstance(x, np.ndarray) and x.size > 0
IsFilledArray(x) == x.t = "ndarray" /\ Len(x.items) > 0

\* A guard that lets every record through.
HasPerson_m(person_id) == TRUE

\* `if person_id:`
HasPerson(person_id) == person_id # NoId

\* json.dumps(total_raised) if total_raised else None, after tolist()
CompletePayload(total_raised) ==
    LET l == ToList(total_raised)
    IN  IF Truthy(l)
        THEN [raises |-> JsonRaises(l), text |-> JsonDumps(l)]
        ELSE [raises |-> FALSE, text |-> NULL]

CompleteInvestment(edge, investor_id) ==
    LET node == safe_get(edge, "node", EmptyDict)
        payload == CompletePayload(safe_get(node, "total_raised", EmptyList))
    IN  IF edge.t = "dict" /\ node.t = "dict"
        THEN IF payload.raises THEN Raise
             ELSE Emit([investor_id |-> investor_id,
                        company_display_name |->
                            Sql(safe_get(node, "company_display_name", PyNone)),
                        total_raised_json |-> payload.text,
                        rec |-> investor_id])
        ELSE Skip

\* `safe_get(data, key) if data else None`
IfTruthy(data, key) ==
    IF Truthy(data) THEN safe_get(data, key, PyNone) ELSE PyNone

\* all_positions entries keep the company's attributes; its id is
\* resolved after the loop.
CompletePosition(pos, person_id, ordinal) ==
    LET company_data == safe_get(pos, "company", EmptyDict)
    IN  IF pos.t # "dict" THEN Skip
        ELSE IF TruthRaises(company_data) THEN Raise
        ELSE Emit([person_id |-> person_id,
                   company_name |-> Sql(IfTruthy(company_data, "name")),
                   company_display_name |->
                       Sql(IfTruthy(company_data, "display_name")),
                   title |-> Sql(safe_get(pos, "title", PyNone)),
                   rec |-> ordinal])

CompleteDegree(deg, person_id, ordinal) ==
    LET school_data == safe_get(deg, "school", EmptyDict)
    IN  IF deg.t # "dict" THEN Skip
        ELSE IF TruthRaises(school_data) THEN Raise
        ELSE Emit([person_id |-> person_id,
                   school_name |-> Sql(IfTruthy(school_data, "name")),
                   school_display_name |->
                       Sql(IfTruthy(school_data, "display_name")),
                   degree_name |-> Sql(safe_get(deg, "name", PyNone)),
                   rec |-> ordinal])

\* Get person_id.
CompletePersonId(r, i) ==
    LET person_data == safe_get(r, "person", EmptyDict)
    IN  IF person_data.t = "dict" /\ Truthy(person_data)
        THEN MapGet(person_map,
                    Sql(safe_get(person_data, "slug",
                                 Str("person_" \o ToString(i)))))
        ELSE NoId

CompleteExtract(r, i) ==
    LET investor_id == i + 1
        person_id == CompletePersonId(r, i)
        areas == Get(r, "areas_of_interest", PyNone)
        locations == Get(r, "investment_locations", PyNone)
        stages == Get(r, "stages", PyNone)
        images == Get(r, "image_urls", PyNone)
        edit_images == Get(r, "image_urls_edit_mode", PyNone)
        media == Get(r, "media_links", PyNone)
        positions == Get(r, "positions", PyNone)
        degrees == Get(r, "degrees", PyNone)
        investments == Get(r, "investments_on_record", PyNone)
        edges == safe_get(investments, "edges", EmptyList)
        s1 == Then(Start, "areas_of_interest",
                   Guarded(IsFilledArray(areas), areas,
                           KindRows(areas, investor_id)))
        s2 == Then(s1, "investment_locations",
                   Guarded(IsFilledArray(locations), locations,
                           KindRows(locations, investor_id)))
        s3 == Then(s2, "investor_stages",
                   Guarded(IsFilledArray(stages), stages,
                           KindRows(stages, investor_id)))
        s4 == Then(s3, "image_urls",
                   Guarded(IsFilledArray(images), images,
                           ImageRows(images, investor_id, FALSE)))
        s5 == Then(s4, "image_urls",
                   Guarded(IsFilledArray(edit_images), edit_images,
                           ImageRows(edit_images, investor_id, TRUE)))
        s6 == Then(s5, "media_links",
                   Guarded(IsFilledArray(media), media,
                           MediaRows(media, investor_id)))
        s7 == Then(s6, "positions",
                   IF HasPerson(person_id) /\ IsFilledArray(positions)
                   THEN Emitted([k \in 1..Len(positions.items) |->
                                    CompletePosition(positions.items[k],
                                                     person_id, investor_id)])
                   ELSE NoRows)
        s8 == Then(s7, "degrees",
                   IF HasPerson(person_id) /\ IsFilledArray(degrees)
                   THEN Emitted([k \in 1..Len(degrees.items) |->
                                    CompleteDegree(degrees.items[k],
                                                   person_id, investor_id)])
                   ELSE NoRows)
    IN  Then(s8, "investments",
             IF investments.t = "dict" /\ IsFilledArray(edges)
             THEN Emitted([k \in 1..Len(edges.items) |->
                              CompleteInvestment(edges.items[k], investor_id)])
             ELSE NoRows)

\* One iteration of the loop; there is no try around it.
complete_record ==
    /\ pc = "complete_loop"
    /\ idx < Len(df)
    /\ \E st \in {CompleteExtract(row, idx)} :
           /\ staged' = Staged(st)
           /\ IF st.ok
              THEN /\ idx' = idx + 1
                   /\ pc' = IF idx + 1 = Len(df) THEN "complete_insert"
                            ELSE "complete_loop"
              ELSE /\ idx' = idx
                   /\ pc' = "aborted_record"
    /\ UNCHANGED <<df, earlier, loader, child, db, serial, person_map, firm_map, location_map,
                   school_map, company_map, errors, faults>>

\* unique_companies / unique_schools: one entry per name, in the order of
\* first appearance, holding the attributes of the last entry of the name.
UniqueDims(rows, name, display_name) ==
    LET named == SelectSeq(rows, LAMBDA r : r[name] # NULL /\ r[name] # "")
        firsts == DropDuplicates(named, name)
        last(n) == CHOOSE i \in 1..Len(named) :
                      /\ named[i][name] = n
                      /\ \A j \in (i + 1)..Len(named) : named[j][name] # n
    IN  [i \in 1..Len(firsts) |->
            [name |-> firsts[i][name],
             display_name |-> named[last(firsts[i][name])][display_name]]]

\* Bulk insert of all data.  The child tables keyed by investor_id first;
\* then companies, the company mapping and positions; then schools, the
\* school mapping and degrees.  The first to_sql that raises ends the
\* function; what the earlier ones wrote stays.
CompleteOrder ==
    <<"areas_of_interest", "investment_locations", "investor_stages",
      "image_urls", "media_links", "investments">>

\* companies_df.to_sql, the company mapping, positions with company_id.
CompleteCompanies(w, failAt) ==
    IF ~w.ok \/ staged.positions = <<>> THEN w
    ELSE Once({
        IF ~c.ok THEN c
        ELSE Once({
            Flush(<<"positions">>, 1,
                  [c EXCEPT
                      !.staged =
                          [positions |->
                              [i \in 1..Len(staged.positions) |->
                                  [person_id |-> staged.positions[i].person_id,
                                   company_id |->
                                       MapGet(cmap, staged.positions[i].company_name),
                                   title |-> staged.positions[i].title,
                                   rec |-> staged.positions[i].rec]]],
                      !.company_map = cmap],
                  failAt - 1, FALSE)
            : cmap \in {MapOfTable(c.db.companies, "name")}})
        : c \in {Flush(<<"companies">>, 1,
                       [w EXCEPT !.staged =
                           [companies |->
                               UniqueDims(staged.positions, "company_name",
                                          "company_display_name")]],
                       failAt, FALSE)}})

\* schools_df.to_sql, the school mapping, degrees with school_id.
CompleteSchools(w, failAt) ==
    IF ~w.ok \/ staged.degrees = <<>> THEN w
    ELSE Once({
        IF ~c.ok THEN c
        ELSE Once({
            Flush(<<"degrees">>, 1,
                  [c EXCEPT
                      !.staged =
                          [degrees |->
                              [i \in 1..Len(staged.degrees) |->
                                  [person_id |-> staged.degrees[i].person_id,
                                   school_id |->
                                       MapGet(smap, staged.degrees[i].school_name),
                                   degree_name |-> staged.degrees[i].degree_name,
                                   rec |-> staged.degrees[i].rec]]],
                      !.school_map = smap],
                  failAt - 1, FALSE)
            : smap \in {MapOfTable(c.db.schools, "name")}})
        : c \in {Flush(<<"schools">>, 1,
                       [w EXCEPT !.staged =
                           [schools |->
                               UniqueDims(staged.degrees, "school_name",
                                          "school_display_name")]],
                       failAt, FALSE)}})

complete_insert ==
    /\ pc = "complete_insert"
    /\ \E f \in Faults(Len(CompleteOrder) + 4) :
        \E w \in {Flush(CompleteOrder, 1,
                        [ok |-> TRUE, faulted |-> FALSE, db |-> db,
                         serial |-> serial, staged |-> staged,
                         company_map |-> company_map, school_map |-> school_map],
                        f.at, FALSE)} :
        \E c2 \in {CompleteCompanies(w, f.at - Len(CompleteOrder))} :
        \E d2 \in {CompleteSchools(c2, f.at - (Len(CompleteOrder) + 2))} :
            /\ f.at # 0 => d2.faulted
            /\ db' = d2.db
            /\ serial' = d2.serial
            /\ company_map' = d2.company_map
            /\ school_map' = d2.school_map
            /\ pc' = IF d2.ok THEN "done" ELSE "aborted_storage"
            /\ faults' = IF f.at # 0 THEN faults + 1 ELSE faults
    /\ UNCHANGED <<df, earlier, loader, child, idx, person_map, firm_map, location_map, staged, errors>>

(***************************************************************************)
(* The pipeline.                                                           *)
(***************************************************************************)
StageNames ==
    {"persons_data", "firms_data", "locations_data", "investors_batch"}
    \cup ChildTables

\* main() of a loader has loaded the source file and recreated the schema.
LoaderInit ==
    /\ loader \in {"rbr", "fast"}
    /\ pc = IF loader = "rbr" THEN "rbr" ELSE "fast_extract"
    /\ db = EmptyDb
    /\ serial = FreshSerial

\* A child-pass script is started on a database filled earlier from the
\* same source file: what extract_and_bulk_insert writes, and the Company
\* and School rows that storage holds from an earlier population (a child
\* pass neither recreates the schema nor clears these two tables).
RECURSIVE Flatten(_)
Flatten(ss) == IF ss = <<>> THEN <<>> ELSE Head(ss) \o Flatten(Tail(ss))

PersonDrafts(frame) ==
    Flatten([i \in 1..Len(frame) |-> PersonDraft(frame[i], i - 1)])
FirmDrafts(frame) ==
    Flatten([i \in 1..Len(frame) |-> FirmDraft(frame[i], i - 1)])
LocationDrafts(frame) ==
    Flatten([i \in 1..Len(frame) |-> LocationDraft(frame[i])])

EarlierRun(frame) ==
    LET persons == Numbered(DropDuplicates(PersonDrafts(frame), "slug"), 1)
        firms == Numbered(DropDuplicates(FirmDrafts(frame), "slug"), 1)
        locations ==
            Numbered(DropDuplicates(LocationDrafts(frame), "display_name"), 1)
        investors ==
            Numbered([i \in 1..Len(frame) |->
                         InvestorDraft(frame[i], i - 1,
                                       MapOfTable(persons, "slug"),
                                       MapOfTable(firms, "slug"),
                                       MapOfTable(locations, "display_name"))], 1)
    IN  [EmptyDb EXCEPT
            !.persons = persons, !.firms = firms, !.locations = locations,
            !.investors = investors,
            !.companies = <<[id |-> 1, name |-> "Acme", display_name |-> "Acme Inc"]>>,
            !.schools = <<[id |-> 1, name |-> "MIT", display_name |-> "MIT"]>>]

\* No run of the pipeline came before this one.
NoRun == [child |-> "none", rows |-> [tb \in Tables |-> 0]]

RerunInit ==
    /\ loader = "none"
    /\ pc = "loaded"
    /\ db = EarlierRun(df)
    /\ serial = [tb \in Tables |-> Len(db[tb]) + 1]

Init ==
    /\ df \in Frames
    /\ LoaderInit \/ RerunInit
    /\ child = "none"
    /\ idx = 0
    /\ person_map = {}
    /\ firm_map = {}
    /\ location_map = {}
    /\ school_map = {}
    /\ company_map = {}
    /\ staged = [n \in StageNames |-> <<>>]
    /\ errors = {}
    /\ faults = 0
    /\ earlier = NoRun

Next ==
    \/ process_investor_data
    \/ fast_extract
    \/ fast_bulk
    \/ fast_investors
    \/ fast_final
    \/ nested_begin
    \/ nested_record
    \/ nested_final
    \/ fixed_begin
    \/ fixed_record
    \/ fixed_final
    \/ complete_begin
    \/ complete_record
    \/ complete_insert

Spec == Init /\ [][Next]_vars

\* The two-record file of the specification's example, at the start of a
\* loader or of a child pass on the database an earlier run left.
ScenarioFrame ==
    << Row([person |-> PersonAlice, firm |-> FirmOne],
           [positions |->
               NdArray(<< Dict([title |-> Str("Partner"),
                                company |-> CompanyAcme]) >>)]),
       Row([person |-> PersonAlice, firm |-> PyNone],
           [positions |-> NdArray(<<>>)]) >>

ScenarioInit ==
    /\ df = ScenarioFrame
    /\ LoaderInit \/ RerunInit
    /\ child = "none"
    /\ idx = 0
    /\ person_map = {}
    /\ firm_map = {}
    /\ location_map = {}
    /\ school_map = {}
    /\ company_map = {}
    /\ staged = [n \in StageNames |-> <<>>]
    /\ errors = {}
    /\ faults = 0
    /\ earlier = NoRun

ScenarioSpec == ScenarioInit /\ [][Next]_vars

\* A for loop over df.iterrows() goes on to its next iteration.
FairSpec ==
    Spec /\ WF_vars(process_investor_data) /\ WF_vars(nested_record)

\* A schema recreation that leaves the sequences where they are.
main_again_m ==
    /\ pc \in {"done", "aborted_record", "aborted_storage"}
    /\ loader # "none" /\ child # "none"
    /\ earlier = NoRun /\ faults = 0
    /\ earlier' = [child |-> child, rows |-> [tb \in Tables |-> Len(db[tb])]]
    /\ db' = EmptyDb
    /\ pc' = IF loader = "rbr" THEN "rbr" ELSE "fast_extract"
    /\ child' = "none"
    /\ idx' = 0
    /\ person_map' = {} /\ firm_map' = {} /\ location_map' = {}
    /\ school_map' = {} /\ company_map' = {}
    /\ staged' = [n \in StageNames |-> <<>>]
    /\ errors' = {}
    /\ UNCHANGED <<df, loader, serial, faults>>

\* The pipeline is run a second time over the same file: main() of the
\* loader drops and recreates every table, then loads as before.  earlier
\* keeps what the first run left, and which child pass it ran.
main_again ==
    /\ pc \in {"done", "aborted_record", "aborted_storage"}
    /\ loader # "none" /\ child # "none"
    /\ earlier = NoRun /\ faults = 0
    /\ earlier' = [child |-> child, rows |-> [tb \in Tables |-> Len(db[tb])]]
    /\ db' = EmptyDb
    /\ serial' = FreshSerial
    /\ pc' = IF loader = "rbr" THEN "rbr" ELSE "fast_extract"
    /\ child' = "none"
    /\ idx' = 0
    /\ person_map' = {} /\ firm_map' = {} /\ location_map' = {}
    /\ school_map' = {} /\ company_map' = {}
    /\ staged' = [n \in StageNames |-> <<>>]
    /\ errors' = {}
    /\ UNCHANGED <<df, loader, faults>>

\* A child pass has ended and another child-pass script is started on the
\* database it left (complete_population after populate_nested_data_fixed,
\* say): a new process, with empty registries and batches.
next_script ==
    /\ pc = "done"
    /\ earlier = NoRun /\ faults = 0
    /\ earlier' = [child |-> "again", rows |-> [tb \in Tables |-> Len(db[tb])]]
    /\ pc' = "loaded"
    /\ child' = "none"
    /\ idx' = 0
    /\ person_map' = {} /\ firm_map' = {} /\ location_map' = {}
    /\ school_map' = {} /\ company_map' = {}
    /\ staged' = [n \in StageNames |-> <<>>]
    /\ errors' = {}
    /\ UNCHANGED <<df, loader, db, serial, faults>>

NextTwice == Next \/ main_again \/ next_script

SpecTwice == Init /\ [][NextTwice]_vars

TypeOK ==
    /\ pc \in {"rbr", "fast_extract", "fast_bulk", "fast_investors",
               "fast_final", "loaded", "nested_loop", "nested_final",
               "fixed_loop", "fixed_final", "complete_loop",
               "complete_insert", "done", "aborted_record",
               "aborted_storage"}
    /\ loader \in {"rbr", "fast", "none"}
    /\ child \in {"none", "nested", "fixed", "complete"}
    /\ idx \in 0..Len(df)
    /\ faults \in 0..MaxFaults

(***************************************************************************)
(* Properties.                                                             *)
(***************************************************************************)
\* What record i (1-based) holds, whatever the scripts read of it.
Field(i, key) == Get(df[i], key, PyNone)
CarriesPerson(i) == IsFilledDict(Field(i, "person"))
PersonKey(i) ==
    Sql(Get(Field(i, "person"), "slug", Str("person_" \o ToString(i - 1))))
PersonHits(i) ==
    {k \in 1..Len(db.persons) : db.persons[k].slug = PersonKey(i)}
Records == 1..Len(df)

\* The rows of table tb, written or staged, that stem from record i.
RowsOf(tb, i) ==
    {r \in Rows(tb) : r.rec = i}
    \cup {staged[tb][k] : k \in {n \in 1..Len(staged[tb]) : staged[tb][n].rec = i}}

InvestorKeyed ==
    {"investments", "areas_of_interest", "investment_locations",
     "investor_stages", "image_urls", "media_links"}

LoaderDone == loader # "none" /\ pc \notin
    {"rbr", "fast_extract", "fast_bulk", "fast_investors", "fast_final",
     "aborted_record", "aborted_storage"}

\* C1 (as claimed): after a loader run, every Person natural key carried by
\* the records has exactly one row in persons, and every Investor row built
\* from a record carrying that key references that row.
C1_Dedup ==
    pc = "loaded" /\ loader # "none" =>
        \A i \in Records :
            CarriesPerson(i) =>
                /\ Cardinality(PersonHits(i)) = 1
                /\ \A v \in Rows("investors") :
                      v.rec = i =>
                          v.person_id = db.persons[CHOOSE k \in PersonHits(i) : TRUE].id

\* C2: in every state no two rows of a dimension table share their natural
\* key (persons and firms by slug, locations by display_name, schools and
\* companies by name).
Unique(tb, key) ==
    \A i, j \in 1..Len(db[tb]) : i # j => db[tb][i][key] # db[tb][j][key]

C2_UniqueKeys ==
    /\ Unique("persons", "slug")
    /\ Unique("firms", "slug")
    /\ Unique("locations", "display_name")
    /\ Unique("schools", "name")
    /\ Unique("companies", "name")

\* Two records carrying one Person key have been loaded by the bulk loader.
C2_Witness ==
    /\ loader = "fast"
    /\ pc = "loaded"
    /\ \E i, j \in Records :
          /\ i < j
          /\ CarriesPerson(i) /\ CarriesPerson(j)
          /\ PersonKey(i) = PersonKey(j)
          /\ PersonHits(i) # {}

\* C3 (as claimed): while a child pass runs on storage that holds Company
\* and School rows, the registry knows every one of them, and no dimension
\* table holds a natural key twice.
C3_Seeded ==
    child # "none" /\ pc \in {"nested_loop", "fixed_loop", "complete_loop"} =>
        /\ \A c \in Rows("companies") : InMap(company_map, c.name)
        /\ \A c \in Rows("schools") : InMap(school_map, c.name)
        /\ C2_UniqueKeys

\* C4: a record without a person (absent, null or an empty mapping) has no
\* Position and no Degree row, written or staged, and its Investor row has
\* a null person_id.
C4_OrphanPolicy ==
    \A i \in Records :
        ~CarriesPerson(i) =>
            /\ RowsOf("positions", i) = {}
            /\ RowsOf("degrees", i) = {}
            /\ \A v \in Rows("investors") : v.rec = i => v.person_id = NoId
            /\ \A k \in 1..Len(staged.investors_batch) :
                  staged.investors_batch[k].rec = i =>
                      staged.investors_batch[k].person_id = NoId

\* A child pass has run to its end over a record that has positions and
\* degrees but no person, and whose Investor row exists.
C4_Witness ==
    /\ pc = "done"
    /\ \E i \in Records :
          /\ ~CarriesPerson(i)
          /\ Field(i, "positions") = PositionsFull
          /\ Field(i, "degrees") = DegreesFull
          /\ \E v \in Rows("investors") : v.rec = i /\ v.person_id = NoId

\* C5: a nested-array field that is absent, null or an empty array yields
\* no child row of its table, and a record all of whose nested fields are
\* blank is never reported as failed by a child pass and never ends one.
Blank(v) == v.t = "none" \/ (v.t = "ndarray" /\ Len(v.items) = 0)

FieldRows(f, i) ==
    CASE f = "stages" -> RowsOf("investor_stages", i)
      [] f = "image_urls" ->
            {r \in RowsOf("image_urls", i) : ~r.is_edit_mode}
      [] f = "image_urls_edit_mode" ->
            {r \in RowsOf("image_urls", i) : r.is_edit_mode}
      [] OTHER -> RowsOf(f, i)

AllBlank(i) ==
    /\ \A f \in ArrayFields : Blank(Field(i, f))
    /\ Field(i, "investments_on_record").t = "none"

FailedInChild(i) ==
    \/ <<child, i - 1>> \in errors
    \/ pc = "aborted_record" /\ child # "none" /\ idx = i - 1

C5_DefaultSafety ==
    \A i \in Records :
        /\ \A f \in ArrayFields : Blank(Field(i, f)) => FieldRows(f, i) = {}
        /\ AllBlank(i) => ~FailedInChild(i)

\* A child pass has run to its end over a record whose nested fields are
\* absent and over one whose nested fields are empty arrays or null.
C5_Witness ==
    /\ pc = "done"
    /\ \E i, j \in Records :
          /\ DOMAIN df[i].kv \cap ArrayFields = {}
          /\ ArrayFields \subseteq DOMAIN df[j].kv
          /\ AllBlank(j)

\* C6 (as claimed): a record whose processing raises never ends the run,
\* and a pass that has ended has visited every record.
C6_ErrorIsolation ==
    /\ pc # "aborted_record"
    /\ pc = "done" => idx = Len(df)
    /\ LoaderDone /\ child = "none" => idx = Len(df)

\* C7 (as claimed): the Investor row built from the k-th record has id k,
\* and a child row keyed by investor_id references the Investor row built
\* from the record the child row was extracted from.
C7_OrdinalIds ==
    /\ \A v \in Rows("investors") : v.id = v.rec
    /\ \A tb \in InvestorKeyed : \A c \in Rows(tb) :
          \A v \in Rows("investors") : v.id = c.investor_id => v.rec = c.rec

\* C8: a loader run without storage failure leaves exactly one Investor
\* row per source record, in source order, also for the records none of
\* whose dimensions resolved.
C8_OneInvestorPerRecord ==
    pc = "loaded" /\ loader # "none" /\ faults = 0 =>
        /\ Len(db.investors) = Len(df)
        /\ \A k \in 1..Len(db.investors) : db.investors[k].rec = k

\* The bulk loader has ended without failure on several records, one of
\* which resolved no dimension at all.
C8_Witness ==
    /\ pc = "loaded" /\ loader = "fast" /\ faults = 0
    /\ Len(df) > 1
    /\ \E k \in 1..Len(db.investors) :
          /\ db.investors[k].person_id = NoId
          /\ db.investors[k].firm_id = NoId
          /\ db.investors[k].location_id = NoId
    /\ \E k \in 1..Len(db.investors) : db.investors[k].person_id # NoId

\* C10 (as claimed): when a child pass has ended, a record whose Person is
\* in storage has one Position row per mapping among its positions and one
\* Degree row per mapping among its degrees.
Mappings(v) ==
    IF v.t = "ndarray" THEN Len(SelectSeq(v.items, IsDict)) ELSE 0

PersonResolved(i) == CarriesPerson(i) /\ PersonHits(i) # {}

C10_RowPerElement ==
    pc = "done" =>
        \A i \in Records :
            PersonResolved(i) =>
                /\ Cardinality({k \in 1..Len(db.positions) :
                                   db.positions[k].rec = i})
                   = Mappings(Field(i, "positions"))
                /\ Cardinality({k \in 1..Len(db.degrees) :
                                   db.degrees[k].rec = i})
                   = Mappings(Field(i, "degrees"))

\* C11: every registry maps a natural key to one id, and an entry a
\* registry holds stays in it, with the same id, in every later step
\* (person_map, firm_map, location_map, school_map, company_map).
Registries == <<person_map, firm_map, location_map, school_map, company_map>>

Functional(m) == \A e1, e2 \in m : e1[1] = e2[1] => e1[2] = e2[2]

CompanyNames(i) ==
    LET v == Field(i, "positions")
    IN  IF v.t # "ndarray" THEN {}
        ELSE {Sql(safe_get(safe_get(v.items[k], "company", EmptyDict),
                           "name", PyNone)) :
                 k \in {n \in 1..Len(v.items) : IsDict(v.items[n])}} \ {NULL}

C12_LazyCompany ==
    /\ loader # "none" /\ child = "none" /\ pc = "loaded" =>
          Rows("companies") = {} /\ Rows("schools") = {}
    /\ loader # "none" /\ pc = "done" =>
          \A i \in Records :
              PersonResolved(i) =>
                  \A n \in CompanyNames(i) :
                      Cardinality({k \in 1..Len(db.companies) :
                                      db.companies[k].name = n}) = 1
    /\ \A k \in 1..Len(staged.positions) :
          staged.positions[k].company_id # NoId =>
              \E e \in company_map : e[2] = staged.positions[k].company_id

\* C13: in the bulk loader no Investor row is built, and afterwards no child
\* row, before every Person, Firm and Location row drafted in the first
\* loop is persisted and registered; every Investor row carries the id of
\* the row its record drafted; and the three registries do not change from
\* the second loop on.
FactPass ==
    loader = "fast" /\
    pc \in {"fast_investors", "fast_final", "loaded", "nested_loop",
            "nested_final", "fixed_loop", "fixed_final", "complete_loop",
            "complete_insert", "done", "aborted_record", "aborted_storage"}

Persisted(tb, reg, key, draft) ==
    draft # <<>> =>
        \E r \in Rows(tb) :
            /\ r[key] = draft[1][key]
            /\ <<r[key], r.id>> \in reg

DimensionsReady ==
    \A i \in Records :
        /\ Persisted("persons", person_map, "slug", PersonDraft(df[i], i - 1))
        /\ Persisted("firms", firm_map, "slug", FirmDraft(df[i], i - 1))
        /\ Persisted("locations", location_map, "display_name",
                     LocationDraft(df[i]))

FactRows ==
    Rows("investors")
    \cup {staged.investors_batch[k] : k \in 1..Len(staged.investors_batch)}

ChildRows ==
    UNION {Rows(tb) \cup {staged[tb][k] : k \in 1..Len(staged[tb])} :
              tb \in ChildTables}

Resolves(v, fk, reg, draft, key) ==
    draft # <<>> => v[fk] # NoId /\ <<draft[1][key], v[fk]>> \in reg

C13_TwoPass ==
    /\ [](loader = "fast" /\ (FactRows # {} \/ ChildRows # {}) =>
             FactPass /\ DimensionsReady)
    /\ [](loader = "fast" =>
             \A v \in FactRows :
                 /\ Resolves(v, "person_id", person_map,
                             PersonDraft(df[v.rec], v.rec - 1), "slug")
                 /\ Resolves(v, "firm_id", firm_map,
                             FirmDraft(df[v.rec], v.rec - 1), "slug")
                 /\ Resolves(v, "location_id", location_map,
                             LocationDraft(df[v.rec]), "display_name"))
    /\ [][FactPass =>
             /\ person_map' = person_map
             /\ firm_map' = firm_map
             /\ location_map' = location_map]_vars

\* The second loop of the bulk loader has built the Investor rows of two
\* records: one whose person, firm and location were all drafted, and one
\* whose person has a null slug.
C13_Witness ==
    /\ loader = "fast" /\ pc = "fast_final"
    /\ Cardinality(FactRows) = 2
    /\ \E v \in FactRows :
          /\ v.person_id # NoId /\ v.firm_id # NoId /\ v.location_id # NoId
    /\ \E v \in FactRows :
          /\ Field(v.rec, "person") = PersonNullSlug
          /\ v.person_id # NoId

\* C14: when the pipeline is run over a file, the loader's main() recreates
\* the schema and the same pipeline is run again, every table holds as
\* many rows at the end of the second run as at the end of the first
\* (runs that end, done or aborted, without a storage outage).
C14_SameCounts ==
    /\ earlier.child # "none" /\ child = earlier.child
    /\ pc \in {"done", "aborted_record", "aborted_storage"} /\ faults = 0
    => \A tb \in Tables : Len(db[tb]) = earlier.rows[tb]

\* The bulk loader and complete_population have run twice over two
\* records, and both runs left Investor rows and child rows.
C14_Witness ==
    /\ earlier.child = "complete" /\ child = "complete"
    /\ loader = "fast" /\ pc = "done" /\ faults = 0
    /\ Len(df) = 2
    /\ earlier.rows["investors"] = 2
    /\ earlier.rows["persons"] > 0
    /\ earlier.rows["areas_of_interest"] > 0
    /\ Len(db.areas_of_interest) > 0

\* C15 (as claimed): in the bulk loader and in populate_nested_data a
\* flush of Investor or child rows that the storage rejects does not end
\* the run: no run is ever stopped by a storage failure while such a batch
\* waits to be written.
C15_FlushFailure ==
    child \in {"none", "nested"} /\ pc = "aborted_storage" =>
        \A n \in {"investors_batch"} \cup ChildTables : staged[n] = <<>>

\* C17 (as claimed): in the bulk loader, populate_nested_data and
\* populate_nested_data_fixed, after every record no in-memory batch of a
\* table holds more rows than the batch size.
C17_BoundedBuffers ==
    child \in {"none", "nested", "fixed"} =>
        \A n \in StageNames : Len(staged[n]) <= BatchSize

\* C18 (as claimed): apart from the schema recreation that starts a run, no
\* step deletes or changes a persisted row: every table's content after a
\* step begins with its content before the step.
IsPrefix(s, t) == Len(s) <= Len(t) /\ \A k \in 1..Len(s) : t[k] = s[k]

C18_AppendOnly ==
    [][main_again \/ \A tb \in Tables : IsPrefix(db[tb], db'[tb])]_vars

\* C19: in the loops of process_investor_data and of populate_nested_data
\* every step takes the next record in source order, whether the record
\* before it failed or not, no failure report is withdrawn, and the loop
\* ends after the last record.
NextRecord ==
    pc \in {"rbr", "nested_loop"} =>
        /\ idx' = idx + 1
        /\ df' = df
        /\ errors \subseteq errors'
        /\ pc' \in {pc, "loaded", "nested_final"}

C19_Terminates ==
    /\ [][NextRecord]_vars
    /\ (pc = "rbr") ~> (pc = "loaded" /\ idx = Len(df))
    /\ (pc = "nested_loop") ~> (pc = "nested_final" /\ idx = Len(df))

\* The record-by-record loader has ended over two records: the first was
\* reported as failed and left no Investor row, the second was processed
\* after it and left one.
C19_Witness ==
    /\ loader = "rbr" /\ child = "none" /\ pc = "loaded"
    /\ Len(df) = 2 /\ idx = 2
    /\ errors = {<<"rbr", 0>>}
    /\ \A v \in Rows("investors") : v.rec = 2
    /\ Rows("investors") # {}

\* C20 (as claimed): the bulk loader followed by populate_nested_data_fixed
\* over the two-record example, without storage failure, ends with 1 Person
\* (slug a), 1 Firm (slug f1), 1 Company (Acme), 2 Investor rows that both
\* reference the Person, the second with a null firm_id, and 1 Position row
\* that references the Person and the Company.
C20_Scenario ==
    /\ df = ScenarioFrame /\ loader = "fast" /\ child = "fixed"
    /\ pc = "done" /\ faults = 0
    => /\ Len(db.persons) = 1 /\ db.persons[1].slug = "a"
       /\ Len(db.firms) = 1 /\ db.firms[1].slug = "f1"
       /\ Len(db.investors) = 2
       /\ \A k \in 1..2 : db.investors[k].person_id = db.persons[1].id
       /\ db.investors[2].firm_id = NoId
       /\ Len(db.companies) = 1 /\ db.companies[1].name = "Acme"
       /\ Len(db.positions) = 1
       /\ db.positions[1].person_id = db.persons[1].id
       /\ db.positions[1].company_id = db.companies[1].id

\* C22 (as claimed): while populate_nested_data_fixed or complete_population
\* loops over the records, the person_id it computes for a record whose
\* person is a non-empty mapping with a slug held by a persons row is the
\* id of that row.
C22_PersonResolved ==
    \A i \in Records :
        PersonResolved(i) /\ PersonKey(i) # NULL =>
            /\ pc = "fixed_loop" =>
                  \E k \in PersonHits(i) :
                      FixedPersonId(df[i], i - 1) = db.persons[k].id
            /\ pc = "complete_loop" =>
                  \E k \in PersonHits(i) :
                      CompletePersonId(df[i], i - 1) = db.persons[k].id

\* C23 (as claimed): a run of process_investor_data without storage failure
\* leaves persons, firms, locations and investors as a run of
\* extract_and_bulk_insert over the same records leaves them.
BulkResult == EarlierRun(df)

C23_SameAsBulk ==
    loader = "rbr" /\ child = "none" /\ pc = "loaded" /\ faults = 0 =>
        \A tb \in {"persons", "firms", "locations", "investors"} :
            db[tb] = BulkResult[tb]

\* C24 (as claimed): a record that process_investor_data,
\* populate_nested_data or populate_nested_data_fixed reported as failed
\* has no row in any table and no row in any batch.
C24_RecordAtomic ==
    \A e \in errors :
        e[1] \in {"rbr", "nested", "fixed"} =>
            /\ \A v \in Rows("investors") : loader = "rbr" => v.rec # e[2] + 1
            /\ \A tb \in ChildTables :
                  /\ \A r \in Rows(tb) : r.rec # e[2] + 1
                  /\ \A k \in 1..Len(staged[tb]) : staged[tb][k].rec # e[2] + 1

\* C25 (as claimed): when a run of the bulk loader or of
\* populate_nested_data without storage failure has ended, the batch of
\* Investor rows and every batch of child rows is empty.
RunEnded ==
    /\ faults = 0
    /\ \/ loader = "fast" /\ child = "none" /\ pc = "loaded"
       \/ child # "none" /\ pc = "done"

C25_BuffersEmpty ==
    RunEnded /\ child \in {"none", "nested"} =>
        \A n \in {"investors_batch"} \cup ChildTables : staged[n] = <<>>

\* C25 (amended): when a run without storage failure has ended, the
\* investors table holds the Investor rows of the records, one each, in
\* source order, no batch holds a row that is not written, and after a
\* child pass on a database without child rows every child table holds
\* exactly the rows staged for it, in the order they were staged.
Unnumbered(rows) ==
    [k \in 1..Len(rows) |->
        [c \in DOMAIN rows[k] \ {"id"} |-> rows[k][c]]]

C25_ExactlyOnce ==
    /\ RunEnded /\ loader = "fast" /\ child = "none" =>
          /\ Unnumbered(db.investors) =
                [i \in 1..Len(df) |->
                    InvestorDraft(df[i], i - 1, person_map, firm_map,
                                  location_map)]
          /\ \A k \in 1..Len(staged.investors_batch) :
                \E v \in 1..Len(db.investors) :
                    Unnumbered(db.investors)[v] = staged.investors_batch[k]
    /\ RunEnded /\ child # "none" =>
          \A tb \in ChildTables : Unnumbered(db[tb]) = staged[tb]

\* The bulk loader and then populate_nested_data_fixed have ended without
\* failure over two records, with child rows written.
C25_Witness ==
    /\ RunEnded /\ loader = "fast" /\ child = "fixed"
    /\ Len(df) = 2
    /\ Len(db.investors) = 2
    /\ Len(db.image_urls) = 4
    /\ Len(db.investments) > 0

\* ---------------------------------------------------------------------
\* C26  Synthetic key fallback

\* The object carries no slug: the key is absent, or its value is null.
NoSlug(obj) == IsFilledDict(obj) /\ Get(obj, "slug", PyNone).t # "str"
SlugAbsent(obj) == IsFilledDict(obj) /\ "slug" \notin DOMAIN obj.kv

\* Of the Investor rows written by a loader, no two of different records
\* that satisfy lacks(object) point at one row of the dimension.
Apart(key, fk, lacks(_)) ==
    \A x, y \in Rows("investors") :
        /\ x.rec # y.rec
        /\ lacks(Field(x.rec, key)) /\ lacks(Field(y.rec, key))
        /\ x[fk] # NoId
        => x[fk] # y[fk]

\* C26: two different records whose person (resp. firm) objects both have
\* no slug never resolve to the same Person (resp. Firm) row.
C26_SyntheticKey ==
    loader # "none" =>
        /\ Apart("person", "person_id", NoSlug)
        /\ Apart("firm", "firm_id", NoSlug)

\* The same for objects from which the slug key itself is missing.
C26_AbsentKey ==
    loader # "none" =>
        /\ Apart("person", "person_id", SlugAbsent)
        /\ Apart("firm", "firm_id", SlugAbsent)

\* ---------------------------------------------------------------------
\* C27  Investment extraction

\* C27: no Investment row with a null or empty company_display_name is
\* ever staged or written, in any of the child passes.
C27_NamedInvestments ==
    /\ \A k \in 1..Len(staged.investments) :
           staged.investments[k].company_display_name \notin {NULL, ""}
    /\ \A r \in Rows("investments") : r.company_display_name \notin {NULL, ""}

\* ---------------------------------------------------------------------
\* C28  First-seen attributes

\* drafts[i] is what record i carries for a dimension (no row, or one).
\* Every row of the table has the attributes of the first record in source
\* order that carries the row's natural key.
FirstSeen(rows, drafts, key) ==
    \A k \in 1..Len(rows) :
        LET carriers == {i \in 1..Len(drafts) :
                            drafts[i] # <<>> /\ drafts[i][1][key] = rows[k][key]}
            first == CHOOSE i \in carriers : \A j \in carriers : i <= j
        IN  carriers # {} =>
                \A c \in DOMAIN drafts[first][1] : rows[k][c] = drafts[first][1][c]

EmittedRows(tb) ==
    IF child = "complete" THEN staged[tb]
    ELSE IF pc = "done" THEN db[tb]
    ELSE db[tb] \o staged[tb]

EmittedFor(tb, i) == SelectSeq(EmittedRows(tb), LAMBDA r : r.rec = i)

Mappings29(v) ==
    IF v.t = "ndarray" THEN SelectSeq(v.items, LAMBDA e : e.t = "dict") ELSE <<>>

KindRow(e, i) ==
    [investor_id |-> i, kind |-> Sql(Get(e, "kind", PyNone)),
     display_name |-> Sql(Get(e, "display_name", PyNone))]
MediaRow(e, i) ==
    [investor_id |-> i, url |-> Sql(Get(e, "url", PyNone)),
     title |-> Sql(Get(e, "title", PyNone)),
     image_url |-> Sql(Get(e, "image_url", PyNone))]

\* The emitted rows agree, column by column and in order, with the wanted.
SameRows(rows, wanted) ==
    /\ Len(rows) = Len(wanted)
    /\ \A k \in 1..Len(wanted) :
          \A c \in DOMAIN wanted[k] : rows[k][c] = wanted[k][c]

\* Record i has been processed by the child pass without being reported.
Processed(i) == child # "none" /\ i <= idx /\ <<child, i - 1>> \notin errors

OnePerMapping(i) ==
    /\ \A f \in {"areas_of_interest", "investment_locations", "stages"} :
          SameRows(EmittedFor(IF f = "stages" THEN "investor_stages" ELSE f, i),
                   [k \in 1..Len(Mappings29(Field(i, f))) |->
                       KindRow(Mappings29(Field(i, f))[k], i)])
    /\ SameRows(EmittedFor("media_links", i),
                [k \in 1..Len(Mappings29(Field(i, "media_links"))) |->
                    MediaRow(Mappings29(Field(i, "media_links"))[k], i)])

\* C29: for every record processed by populate_nested_data or
\* complete_population, the rows of areas_of_interest, investment_locations,
\* stages and media_links are exactly one per array element that is a
\* mapping, in array order, keyed by the record's investor_id and carrying
\* the element's attributes.
C29_OnePerMapping ==
    child \in {"nested", "complete"} =>
        \A i \in Records : Processed(i) => OnePerMapping(i)

\* ---------------------------------------------------------------------
\* C30  ImageURL merge

Urls(v) ==
    IF v.t = "ndarray"
    THEN SelectSeq(v.items, LAMBDA e : e.t = "str" /\ e.s # "")
    ELSE <<>>

WantedImages(i) ==
    [k \in 1..Len(Urls(Field(i, "image_urls"))) |->
        [investor_id |-> i, url |-> Urls(Field(i, "image_urls"))[k].s,
         is_edit_mode |-> FALSE]]
    \o [k \in 1..Len(Urls(Field(i, "image_urls_edit_mode"))) |->
        [investor_id |-> i, url |-> Urls(Field(i, "image_urls_edit_mode"))[k].s,
         is_edit_mode |-> TRUE]]

\* C30: while no storage statement has failed, the image_urls rows of a
\* record processed by populate_nested_data_fixed or complete_population
\* are the non-empty string elements of image_urls with is_edit_mode false
\* followed by those of image_urls_edit_mode with is_edit_mode true; empty
\* strings, nulls and non-strings yield no row.
C30_ImageMerge ==
    child \in {"fixed", "complete"} /\ faults = 0 =>
        \A i \in Records :
            Processed(i) => SameRows(EmittedFor("image_urls", i), WantedImages(i))

\* A record with image_urls = [u1, '', None] and image_urls_edit_mode =
\* [u1] has been processed by one of the two passes: it has the two rows
\* of u1, which differ only in the flag.
C30_Witness ==
    /\ child \in {"fixed", "complete"} /\ pc = "done" /\ faults = 0
    /\ \E i \in Records :
          /\ Field(i, "image_urls") = ImagesFull
          /\ Field(i, "image_urls_edit_mode") = ImagesEdit
          /\ Len(EmittedFor("image_urls", i)) = 2
          /\ EmittedFor("image_urls", i)[1].url = EmittedFor("image_urls", i)[2].url
          /\ ~EmittedFor("image_urls", i)[1].is_edit_mode
          /\ EmittedFor("image_urls", i)[2].is_edit_mode

====
